---- MODULE Spec2Model ----
(***************************************************************************)
(* A model of the market-report scripts: the retrying upstream clients     *)
(* (tools.py fetch_single_ticker / get_option_data and the                 *)
(* option_analysis.py copy of get_option_data), the per-symbol batch loop  *)
(* fetch_stock_data with its record arithmetic, the PDF merger, the bar    *)
(* chart and the three report generators.                                  *)
(*                                                                         *)
(* One behaviour is one top-level call: Init picks the entry point and its *)
(* arguments, the actions are the steps of that call.  Every upstream      *)
(* answer (a history frame, an exception, an expiration list, ...) is an   *)
(* input drawn from a bounded set when the code asks for it.               *)
(***************************************************************************)
EXTENDS Integers, Sequences, FiniteSets, TLC

VARIABLES
    call,                \* the entry point this run invokes
    trace,               \* upstream attempts, failures and time.sleep calls of the running client call
    f_pc,                \* fetch_single_ticker: "idle", "try", "done"
    f_attempt,           \* fetch_single_ticker: the loop variable attempt
    f_result,            \* fetch_single_ticker: the returned value
    o_pc,                \* get_option_data: "idle", "options", "info", "select", "chains", "done"
    o_attempt,           \* get_option_data: the loop variable attempt
    variant,             \* which copy of get_option_data runs: "tools" or "option_analysis"
    current_date,        \* dt.now() in ticks
    expiration_dates,    \* ticker.options as read by the current attempt
    stock_info,          \* ticker.info as read by the current attempt
    stock_price,         \* the resolved price
    nearest_expirations, \* the expirations selected by the current attempt
    option_chains,       \* the chains fetched so far by the current attempt
    o_result,            \* get_option_data: the returned value
    symbols_dict,        \* fetch_stock_data: the argument, in iteration order
    b_pc,                \* fetch_stock_data: "idle", "loop", "fetching", "done"
    i,                   \* fetch_stock_data: iterations completed
    data,                \* fetch_stock_data: the mapping under construction
    attempted,           \* fetch_stock_data: the symbols fetch_single_ticker was called for
    fetched,             \* fetch_stock_data: what each of those calls gave back, by kind
    r_pc,                \* record arithmetic: "idle", "build", "done"
    r_hist,              \* record arithmetic: the frame
    r_entry,             \* record arithmetic: the entry stored for it
    files,               \* the filesystem: each path's modification time, 0 when it does not exist
    files0,              \* the filesystem when the merge was called
    m_pc,                \* merge_pdfs / merge_specific_pdfs: the statement reached, "done", "raised"
    stock_pdf,           \* the first source (latest_stock_report in merge_pdfs)
    option_pdf,          \* the second source (latest_option_report in merge_pdfs)
    merger,              \* the PdfMerger: the documents appended so far
    output,              \* the output file: None, or its pages and whether it was written in full
    printed,             \* what the merge printed
    clock,               \* the wall clock in ticks, as last read by the report generator
    g_pc,                \* report generators: the statement reached, "idle", "done", "raised"
    all_data,            \* report generators: the argument, in iteration order
    section,             \* report generators: sections completed
    filename,            \* the date stamp of the output path
    date_str,            \* the date printed under the title
    story,               \* the blocks of the document so far
    del_path,            \* generate_options_pdf: the chart paths to delete
    tmp,                 \* the temporary chart images that exist
    document,            \* the written document: None, or its date stamp and blocks
    raised,              \* the exception that ended the report call, "" for none
    c_pc,                \* create_bar_chart: "idle", "build", "done"
    c_data,              \* create_bar_chart: the argument data
    c_chart              \* create_bar_chart: the returned chart

fetchVars == <<trace, f_pc, f_attempt, f_result>>
optionVars == <<o_pc, o_attempt, variant, current_date, expiration_dates, stock_info,
                stock_price, nearest_expirations, option_chains, o_result>>
batchVars == <<symbols_dict, b_pc, i, data, attempted, fetched>>
recordVars == <<r_pc, r_hist, r_entry>>
mergeVars == <<files, files0, m_pc, stock_pdf, option_pdf, merger, output, printed>>
reportVars == <<clock, g_pc, all_data, section, filename, date_str, story, del_path, tmp,
                document, raised>>
chartVars == <<c_pc, c_data, c_chart>>
vars == <<call, fetchVars, optionVars, batchVars, recordVars, mergeVars, reportVars, chartVars>>

\* what the steps of fetch_single_ticker and of get_option_data leave alone
fetchFrame == <<call, optionVars, batchVars, recordVars, mergeVars, reportVars, chartVars>>
optionFrame == <<call, f_pc, f_attempt, f_result, batchVars, recordVars, mergeVars,
                reportVars, chartVars>>

----------------------------------------------------------------------------
(* Bounds of the model.                                                    *)

\* the calendar day (a day number) the run happens on
Today == 1
\* clock ticks per calendar day: tick 0 of a day is midnight
TicksPerDay == 2
\* longest expiration list the provider returns
MaxExpirations == 3
\* price metadata fields take the values 0..MaxPrice, or are missing
MaxPrice == 1

----------------------------------------------------------------------------
(* Python values.                                                          *)

\* None, and a present value v
None == <<>>
Some(v) == <<v>>

\* a retry loop that goes round once more (range(max_retries + 1))
max_retries_plus_one == 3 + 1

\* range(max_retries): tools.py:41 and the default of tools.py:274
max_retries == 3

\* the trace
Attempt == [ev |-> "attempt", kind |-> "", wait |-> 0]
Fail(k) == [ev |-> "fail", kind |-> k, wait |-> 0]
Sleep(n) == [ev |-> "sleep", kind |-> "", wait |-> n]

\* exceptions the upstream raises, by what the handlers can tell apart:
\* YFRateLimitError (its message is "Too Many Requests. Rate limited. ..."),
\* and any other Exception
Exceptions == {"rate", "err"}

RECURSIVE CountEv(_, _)
\* how many events of kind ev the sequence t holds
CountEv(t, ev) ==
    IF t = <<>> THEN 0
    ELSE (IF t[1].ev = ev THEN 1 ELSE 0) + CountEv(Tail(t), ev)

\* all sequences over S of length at most n
SeqsUpTo(S, n) == UNION {[1..k -> S] : k \in 0..n}

----------------------------------------------------------------------------
(* fetch_single_ticker (tools.py:37-56).                                   *)

\* longest frame and largest close (in half cents) ticker.history returns
MaxRows == 2
MaxFetchedClose == 2

\* a history frame: its rows' closes, and whether it has a 'Close' column at all
Frames ==
    {[hasClose |-> TRUE, rows |-> s] : s \in SeqsUpTo(1..MaxFetchedClose, MaxRows)}
        \cup {[hasClose |-> FALSE, rows |-> <<1>>]}

\* tools.py:48: the handler classifies by the exception's message
IsRateLimitMessage(e) == e = "rate"

\* tools.py:49
wait_time(attempt) == (attempt + 1) * 5

\* tools.py:44-46: the attempt succeeds and the frame is returned
FetchOk ==
    /\ f_pc = "try"
    /\ f_attempt < max_retries
    /\ \E hist \in Frames : f_result' = Some(hist)
    /\ trace' = Append(trace, Attempt)
    /\ f_pc' = "done"
    /\ UNCHANGED f_attempt
    /\ UNCHANGED fetchFrame

\* tools.py:47-52: a rate-limit exception: sleep, then the next iteration
FetchRateLimited ==
    /\ f_pc = "try"
    /\ f_attempt < max_retries
    /\ \E e \in Exceptions :
        /\ IsRateLimitMessage(e)
        /\ trace' = trace \o <<Attempt, Fail(e), Sleep(wait_time(f_attempt))>>
    /\ f_attempt' = f_attempt + 1
    /\ UNCHANGED <<f_pc, f_result>>
    /\ UNCHANGED fetchFrame

\* tools.py:53-55: any other exception: return None at once
FetchError ==
    /\ f_pc = "try"
    /\ f_attempt < max_retries
    /\ \E e \in Exceptions :
        /\ ~IsRateLimitMessage(e)
        /\ trace' = trace \o <<Attempt, Fail(e)>>
    /\ f_result' = None
    /\ f_pc' = "done"
    /\ UNCHANGED f_attempt
    /\ UNCHANGED fetchFrame

\* tools.py:56: the loop ran out
FetchExhausted ==
    /\ f_pc = "try"
    /\ f_attempt >= max_retries
    /\ f_result' = None
    /\ f_pc' = "done"
    /\ UNCHANGED <<trace, f_attempt>>
    /\ UNCHANGED fetchFrame

----------------------------------------------------------------------------
(* get_option_data (tools.py:274-347, option_analysis.py:21-70).           *)

\* tools.py:305: timedelta(days=30)
WindowDays == 30

\* the days an expiration can fall on: yesterday, today, tomorrow, and the two
\* days around the far edge of the window
CandidateDays == {Today - 1, Today, Today + 1, Today + WindowDays, Today + WindowDays + 1}

\* ticker.options: the provider lists expirations in ascending order
ExpirationLists ==
    {l \in SeqsUpTo(CandidateDays, MaxExpirations) :
        \A a, b \in 1..Len(l) : a < b => l[a] < l[b]}

\* ticker.info: each price field holds a number or is missing (None)
PriceField == {None} \cup {Some(p) : p \in 0..MaxPrice}
Infos == [regularMarketPrice : PriceField, currentPrice : PriceField, previousClose : PriceField]

\* dt.now() during the day Today: midnight sharp, or later in the day
Clock == {Today * TicksPerDay + t : t \in 0..(TicksPerDay - 1)}

\* tools.py:308: dt.strptime(expiration_date, "%Y-%m-%d") is midnight of that day
strptime(expiration_date) == expiration_date * TicksPerDay

\* tools.py:305
three_months_later(now) == now + WindowDays * TicksPerDay

\* tools.py:310
InWindow(now, expiration_date) ==
    /\ now <= strptime(expiration_date)
    /\ strptime(expiration_date) <= three_months_later(now)

\* tools.py:303-311: the expirations of the list inside the window, in list order
WindowFilter(now, dates) == SelectSeq(dates, LAMBDA d : InWindow(now, d))

\* a selection that forgets the fallback to the first expiration
SelectExpirationsNoFallback(v, now, dates) ==
    IF v = "option_analysis" THEN <<dates[1]>> ELSE WindowFilter(now, dates)

\* tools.py:303-315 (dates is not empty): the window, or else the first expiration;
\* option_analysis.py:47: always the first expiration
SelectExpirations(v, now, dates) ==
    IF v = "option_analysis" THEN <<dates[1]>>
    ELSE IF WindowFilter(now, dates) = <<>> THEN <<dates[1]>>
    ELSE WindowFilter(now, dates)

\* a resolution that tests each field for truth (x or y or z) instead of "is None"
ResolvePriceByTruth(info) ==
    IF info.regularMarketPrice \notin {None, Some(0)} THEN info.regularMarketPrice
    ELSE IF info.currentPrice \notin {None, Some(0)} THEN info.currentPrice
    ELSE info.previousClose

\* tools.py:288-293, option_analysis.py:35-40: stock_info.get(...) in turn, each
\* tested with "is None"
ResolvePrice(info) ==
    IF info.regularMarketPrice # None THEN info.regularMarketPrice
    ELSE IF info.currentPrice # None THEN info.currentPrice
    ELSE info.previousClose

\* ticker.option_chain(expiration): the provider's chain of that expiration
ChainOf(expiration) == [calls |-> <<"calls", expiration>>, puts |-> <<"puts", expiration>>]

\* tools.py:337, 345: (None, None); option_analysis.py:60, 68: (None, None, None)
Unavailable(v) == IF v = "tools" THEN <<None, None>> ELSE <<None, None, None>>

\* tools.py:326: (option_chains, stock_price);
\* option_analysis.py:49: (opt_chain.calls, opt_chain.puts, stock_price)
Returned(v, chains, price) ==
    IF v = "tools" THEN <<Some(chains), price>>
    ELSE <<Some(chains[1].option_chain.calls), Some(chains[1].option_chain.puts), price>>

\* tools.py:334, 342: the waits of the two handlers
RateLimitWait == 10
ErrorWait == 5

\* tools.py:332, 340: the handlers sleep and go round again unless this was the
\* last attempt
MayRetry(attempt) == attempt < max_retries - 1

\* tools.py:331-345, option_analysis.py:54-68: exception e ends the attempt
\* (pre: what the attempt put on the trace before it raised).  The attempt's
\* locals are dead from here on: the next attempt assigns each before reading it.
Handle(pre, e) ==
    /\ IF MayRetry(o_attempt)
       THEN /\ trace' = trace \o pre \o
                           <<Fail(e), Sleep(IF e = "rate" THEN RateLimitWait ELSE ErrorWait)>>
            /\ o_attempt' = o_attempt + 1
            /\ o_pc' = "options"
            /\ UNCHANGED o_result
       ELSE /\ trace' = trace \o pre \o <<Fail(e)>>
            /\ o_result' = Unavailable(variant)
            /\ o_pc' = "done"
            /\ UNCHANGED o_attempt
    /\ expiration_dates' = <<>>
    /\ stock_info' = None
    /\ stock_price' = None
    /\ nearest_expirations' = <<>>
    /\ option_chains' = <<>>
    /\ UNCHANGED <<variant, current_date>>

\* tools.py:281-282: the attempt starts and reads ticker.options
OptReadOptions ==
    /\ o_pc = "options"
    /\ o_attempt < max_retries
    /\ \E dates \in ExpirationLists : expiration_dates' = dates
    /\ trace' = Append(trace, Attempt)
    /\ o_pc' = "info"
    /\ UNCHANGED <<o_attempt, variant, current_date, stock_info, stock_price,
                   nearest_expirations, option_chains, o_result>>
    /\ UNCHANGED optionFrame

\* tools.py:282: reading ticker.options raises
OptReadOptionsFails ==
    /\ o_pc = "options"
    /\ o_attempt < max_retries
    /\ \E e \in Exceptions : Handle(<<Attempt>>, e)
    /\ UNCHANGED optionFrame

\* tools.py:285-293: the price is resolved from ticker.info
OptReadInfo ==
    /\ o_pc = "info"
    /\ \E info \in Infos :
        /\ stock_info' = Some(info)
        /\ stock_price' = ResolvePrice(info)
    /\ o_pc' = "select"
    /\ UNCHANGED <<trace, o_attempt, variant, current_date, expiration_dates,
                   nearest_expirations, option_chains, o_result>>
    /\ UNCHANGED optionFrame

\* tools.py:294-295: reading ticker.info raises; the price stays None
OptReadInfoFails ==
    /\ o_pc = "info"
    /\ stock_info' = None
    /\ stock_price' = None
    /\ o_pc' = "select"
    /\ UNCHANGED <<trace, o_attempt, variant, current_date, expiration_dates,
                   nearest_expirations, option_chains, o_result>>
    /\ UNCHANGED optionFrame

\* tools.py:298-318: a non-empty list: pick the expirations to fetch
OptSelect ==
    /\ o_pc = "select"
    /\ expiration_dates # <<>>
    /\ nearest_expirations' = SelectExpirations(variant, current_date, expiration_dates)
    /\ option_chains' = <<>>
    /\ o_pc' = "chains"
    /\ UNCHANGED <<trace, o_attempt, variant, current_date, expiration_dates, stock_info,
                   stock_price, o_result>>
    /\ UNCHANGED optionFrame

\* tools.py:327-329: an empty list: the bare raise (a RuntimeError) lands in the
\* generic handler
OptNoExpirations ==
    /\ o_pc = "select"
    /\ expiration_dates = <<>>
    /\ Handle(<<>>, "err")
    /\ UNCHANGED optionFrame

\* tools.py:319-324: the chain of the next selected expiration arrives
OptFetchChain ==
    /\ o_pc = "chains"
    /\ Len(option_chains) < Len(nearest_expirations)
    /\ LET expiration == nearest_expirations[Len(option_chains) + 1]
       IN option_chains' = Append(option_chains,
                                  [expiration |-> expiration, option_chain |-> ChainOf(expiration)])
    /\ UNCHANGED <<trace, o_pc, o_attempt, variant, current_date, expiration_dates,
                   stock_info, stock_price, nearest_expirations, o_result>>
    /\ UNCHANGED optionFrame

\* tools.py:320: ticker.option_chain raises: the attempt is over
OptFetchChainFails ==
    /\ o_pc = "chains"
    /\ Len(option_chains) < Len(nearest_expirations)
    /\ \E e \in Exceptions : Handle(<<>>, e)
    /\ UNCHANGED optionFrame

\* tools.py:326, option_analysis.py:49.  (The return after the loop, tools.py:347,
\* is never reached with max_retries = 3: the handlers return on the last attempt.)
OptReturn ==
    /\ o_pc = "chains"
    /\ Len(option_chains) = Len(nearest_expirations)
    /\ o_result' = Returned(variant, option_chains, stock_price)
    /\ o_pc' = "done"
    /\ UNCHANGED <<trace, o_attempt, variant, current_date, expiration_dates, stock_info,
                   stock_price, nearest_expirations, option_chains>>
    /\ UNCHANGED optionFrame

----------------------------------------------------------------------------
(* fetch_stock_data (tools.py:58-97) and its record arithmetic.            *)
(*                                                                         *)
(* A close is a whole number of units, CloseScale units to the currency    *)
(* unit, so closes carry more decimals than the two that round() keeps.    *)
(* round(x, 2) is modelled on exact rationals: the result is given in      *)
(* hundredths, ties go to the even neighbour (Python's and numpy's round). *)
(* Binary floating-point error is outside the model.                       *)

\* units per currency unit: a close of c units is c / CloseScale
CloseScale == 200

\* number of symbols and of display names in a mapping; symbols are 1..MaxSymbols
MaxSymbols == 2
MaxNames == 2

\* the arguments: a dict has distinct keys (symbols); display names may repeat
SymbolDicts ==
    UNION {[1..k -> 1..MaxNames] : k \in 0..MaxSymbols}

\* symbols_dict.items() in iteration order
Items(d) == [k \in 1..Len(d) |-> [symbol |-> k, name |-> d[k]]]

\* rounding that takes every tie upwards (floor(x + 1/2))
RoundHalfUp(n, d) == (2 * n + d) \div (2 * d)

\* round half to even of n / d, for d > 0
RoundHalfEven(n, d) ==
    LET q == n \div d
        r == n % d
    IN IF 2 * r < d THEN q
       ELSE IF 2 * r > d THEN q + 1
       ELSE IF q % 2 = 0 THEN q ELSE q + 1

\* round(n / d, 2), in hundredths
Round2(n, d) == RoundHalfEven(100 * n, d)

\* tools.py:71-85: the record of a non-empty close series
Record(symbol, Close) ==
    LET n == Len(Close)
        current_price == Close[n]
    IN IF n > 1
       THEN LET previous_price == Close[n - 1]
                change == current_price - previous_price
            IN [symbol |-> symbol,
                price |-> Round2(current_price, CloseScale),
                change |-> Round2(change, CloseScale),
                \* (change / previous_price) * 100: the scales cancel
                change_percent |-> Round2(change * 100, previous_price)]
       ELSE [symbol |-> symbol,
             price |-> Round2(current_price, CloseScale),
             change |-> Round2(0, 1),
             change_percent |-> Round2(0, 1)]

\* what fetch_single_ticker gave back, as tools.py:70-71 sees it
Kind(hist) ==
    IF hist = None THEN "none"
    ELSE IF hist[1].rows = <<>> THEN "empty"
    ELSE IF ~hist[1].hasClose THEN "malformed"
    ELSE "series"

\* a loop body that stores a zero-filled record where the code stores None
EntryZeroFilled(symbol, hist) ==
    IF Kind(hist) = "series" THEN Some(Record(symbol, hist[1].rows))
    ELSE Some([symbol |-> symbol, price |-> 0, change |-> 0, change_percent |-> 0])

\* tools.py:70-95: the value stored under the name: the record, or None when the
\* frame is None or empty (line 87) or when hist['Close'] raises (lines 93-95)
Entry(symbol, hist) ==
    IF Kind(hist) = "series" THEN Some(Record(symbol, hist[1].rows)) ELSE None

\* data[name] = value
Store(d, name, value) ==
    [n \in (DOMAIN d) \cup {name} |-> IF n = name THEN value ELSE d[n]]

batchFrame == <<call, optionVars, recordVars, mergeVars, reportVars, chartVars>>

\* tools.py:65-68: the next item: fetch_single_ticker(symbol, period) is called
BatchFetch ==
    /\ b_pc = "loop"
    /\ i < Len(symbols_dict)
    /\ attempted' = Append(attempted, Items(symbols_dict)[i + 1].symbol)
    /\ trace' = <<>>
    /\ f_pc' = "try"
    /\ f_attempt' = 0
    /\ f_result' = None
    /\ b_pc' = "fetching"
    /\ UNCHANGED <<symbols_dict, i, data, fetched>>
    /\ UNCHANGED batchFrame

\* the call has returned: the rest of the iteration stores the entry
BatchStore ==
    /\ b_pc = "fetching"
    /\ f_pc = "done"
    /\ LET item == Items(symbols_dict)[i + 1]
       IN data' = Store(data, item.name, Entry(item.symbol, f_result))
    /\ fetched' = Append(fetched, Kind(f_result))
    /\ i' = i + 1
    /\ b_pc' = "loop"
    /\ f_pc' = "idle"
    /\ UNCHANGED <<symbols_dict, attempted, trace, f_attempt, f_result>>
    /\ UNCHANGED batchFrame

\* tools.py:70-85: a non-empty frame: the record is stored
BatchRecord ==
    /\ Kind(f_result) = "series"
    /\ BatchStore

\* tools.py:86-87: None or an empty frame: None is stored
BatchAbsent ==
    /\ Kind(f_result) \in {"none", "empty"}
    /\ BatchStore

\* a loop without the try/except: the exception ends the call
BatchUncaught ==
    /\ b_pc = "fetching"
    /\ f_pc = "done"
    /\ Kind(f_result) = "malformed"
    /\ b_pc' = "done"
    /\ f_pc' = "idle"
    /\ UNCHANGED <<symbols_dict, i, data, attempted, fetched, trace, f_attempt, f_result>>
    /\ UNCHANGED batchFrame

\* tools.py:93-95: hist['Close'] raised: the handler stores None
BatchCaught ==
    /\ Kind(f_result) = "malformed"
    /\ BatchStore

\* tools.py:97
BatchReturn ==
    /\ b_pc = "loop"
    /\ i >= Len(symbols_dict)
    /\ b_pc' = "done"
    /\ UNCHANGED <<symbols_dict, i, data, attempted, fetched>>
    /\ UNCHANGED <<fetchVars, batchFrame>>

\* longest series and largest close of the record arithmetic's inputs
MaxLen == 3
MaxClose == 4

\* the frames the record arithmetic is applied to
RecordFrames ==
    {[hasClose |-> TRUE, rows |-> s] : s \in SeqsUpTo(1..MaxClose, MaxLen)}
        \cup {[hasClose |-> FALSE, rows |-> <<1>>]}

\* tools.py:70-95 applied to one fetched frame
RecordBuild ==
    /\ r_pc = "build"
    /\ r_entry' = Entry(1, Some(r_hist))
    /\ r_pc' = "done"
    /\ UNCHANGED r_hist
    /\ UNCHANGED <<call, fetchVars, optionVars, batchVars, mergeVars, reportVars, chartVars>>

----------------------------------------------------------------------------
(* merge_pdfs and merge_specific_pdfs (merge_pdfs.py:9-102).               *)

\* files per filename pattern, and the latest modification time
MaxFiles == 2
MaxMtime == 2

\* the two glob patterns of merge_pdfs.py:15-16
Patterns == {"stock", "option"}

\* the paths: each matches one of the two patterns
Paths == [pattern : Patterns, id : 1..MaxFiles]

\* an existence test that every path passes
ExistsAnyPath(fs, path) == fs[path] >= 0

\* os.path.exists
Exists(fs, path) == fs[path] > 0

\* glob.glob(pattern): the existing files that match, in any order
Glob(fs, pattern) == {path \in Paths : path.pattern = pattern /\ Exists(fs, path)}
Orders(S) == {l \in [1..Cardinality(S) -> S] : \A a, b \in 1..Cardinality(S) : a # b => l[a] # l[b]}

\* a sort that leaves out reverse=True: the oldest file comes first
OldestFirst(fs, reports) ==
    reports[CHOOSE k \in 1..Len(reports) :
                /\ \A m \in 1..Len(reports) : fs[reports[m]] >= fs[reports[k]]
                /\ \A m \in 1..(k - 1) : fs[reports[m]] > fs[reports[k]]]

\* merge_pdfs.py:25-26, 36-37: reports.sort(key=os.path.getmtime, reverse=True)
\* and then reports[0]: the sort is stable, so this is the first file of the list
\* that no other file beats
LatestFirst(fs, reports) ==
    reports[CHOOSE k \in 1..Len(reports) :
                /\ \A m \in 1..Len(reports) : fs[reports[m]] <= fs[reports[k]]
                /\ \A m \in 1..(k - 1) : fs[reports[m]] < fs[reports[k]]]

\* os.unlink(path) of an existing file
Unlink(fs, path) == [fs EXCEPT ![path] = 0]

mergeFrame == <<call, fetchVars, optionVars, batchVars, recordVars, reportVars, chartVars>>

\* merge_pdfs.py:19-22: no stock report matches: report and return
MergeNoStockReport ==
    /\ m_pc = "glob_stock"
    /\ Glob(files, "stock") = {}
    /\ printed' = Append(printed, "no stock report")
    /\ m_pc' = "done"
    /\ UNCHANGED <<files, files0, stock_pdf, option_pdf, merger, output>>
    /\ UNCHANGED mergeFrame

\* merge_pdfs.py:19-27: the latest stock report
MergePickStock ==
    /\ m_pc = "glob_stock"
    /\ Glob(files, "stock") # {}
    /\ \E stock_reports \in Orders(Glob(files, "stock")) :
          stock_pdf' = Some(LatestFirst(files, stock_reports))
    /\ m_pc' = "glob_option"
    /\ UNCHANGED <<files, files0, option_pdf, merger, output, printed>>
    /\ UNCHANGED mergeFrame

\* merge_pdfs.py:30-33: no option report matches: report and return
MergeNoOptionReport ==
    /\ m_pc = "glob_option"
    /\ Glob(files, "option") = {}
    /\ printed' = Append(printed, "no option report")
    /\ m_pc' = "done"
    /\ UNCHANGED <<files, files0, stock_pdf, option_pdf, merger, output>>
    /\ UNCHANGED mergeFrame

\* merge_pdfs.py:30-38: the latest option report
MergePickOption ==
    /\ m_pc = "glob_option"
    /\ Glob(files, "option") # {}
    /\ \E option_reports \in Orders(Glob(files, "option")) :
          option_pdf' = Some(LatestFirst(files, option_reports))
    /\ m_pc' = "append"
    /\ UNCHANGED <<files, files0, stock_pdf, merger, output, printed>>
    /\ UNCHANGED mergeFrame

\* merge_pdfs.py:72-74: the first path does not exist: report and return
MergeStockMissing ==
    /\ m_pc = "check_stock"
    /\ ~Exists(files, stock_pdf[1])
    /\ printed' = Append(printed, "file does not exist")
    /\ m_pc' = "done"
    /\ UNCHANGED <<files, files0, stock_pdf, option_pdf, merger, output>>
    /\ UNCHANGED mergeFrame

\* merge_pdfs.py:72: the first path exists
MergeStockExists ==
    /\ m_pc = "check_stock"
    /\ Exists(files, stock_pdf[1])
    /\ m_pc' = "check_option"
    /\ UNCHANGED <<files, files0, stock_pdf, option_pdf, merger, output, printed>>
    /\ UNCHANGED mergeFrame

\* merge_pdfs.py:76-78: the second path does not exist: report and return
MergeOptionMissing ==
    /\ m_pc = "check_option"
    /\ ~Exists(files, option_pdf[1])
    /\ printed' = Append(printed, "file does not exist")
    /\ m_pc' = "done"
    /\ UNCHANGED <<files, files0, stock_pdf, option_pdf, merger, output>>
    /\ UNCHANGED mergeFrame

\* merge_pdfs.py:76: the second path exists
MergeOptionExists ==
    /\ m_pc = "check_option"
    /\ Exists(files, option_pdf[1])
    /\ m_pc' = "append"
    /\ UNCHANGED <<files, files0, stock_pdf, option_pdf, merger, output, printed>>
    /\ UNCHANGED mergeFrame

\* merge_pdfs.py:41-46, 81-86: both documents are appended, the stock report first
MergeAppend ==
    /\ m_pc = "append"
    /\ merger' = <<stock_pdf[1], option_pdf[1]>>
    /\ m_pc' = "write"
    /\ UNCHANGED <<files, files0, stock_pdf, option_pdf, output, printed>>
    /\ UNCHANGED mergeFrame

\* merge_pdfs.py:45-46, 85-86: PdfMerger.append raises (a file that is no PDF)
MergeAppendFails ==
    /\ m_pc = "append"
    /\ m_pc' = "raised"
    /\ UNCHANGED <<files, files0, stock_pdf, option_pdf, merger, output, printed>>
    /\ UNCHANGED mergeFrame

\* merge_pdfs.py:53-57, 94-98: the output is written in full and closed
MergeWrite ==
    /\ m_pc = "write"
    /\ output' = Some([pages |-> merger, complete |-> TRUE])
    /\ m_pc' = "unlink_stock"
    /\ UNCHANGED <<files, files0, stock_pdf, option_pdf, merger, printed>>
    /\ UNCHANGED mergeFrame

\* merge_pdfs.py:53, 94: open(output_filename, "wb") raises (merge_pdfs writes
\* into the directory output/, which may not exist)
MergeOpenFails ==
    /\ m_pc = "write"
    /\ m_pc' = "raised"
    /\ UNCHANGED <<files, files0, stock_pdf, option_pdf, merger, output, printed>>
    /\ UNCHANGED mergeFrame

\* merge_pdfs.py:54, 95: merger.write raises part way: a truncated output stays
MergeWriteFails ==
    /\ m_pc = "write"
    /\ \E n \in 0..(Len(merger) - 1) :
          output' = Some([pages |-> SubSeq(merger, 1, n), complete |-> FALSE])
    /\ m_pc' = "raised"
    /\ UNCHANGED <<files, files0, stock_pdf, option_pdf, merger, printed>>
    /\ UNCHANGED mergeFrame

\* merge_pdfs.py:58, 99: os.unlink of the first source
MergeUnlinkStock ==
    /\ m_pc = "unlink_stock"
    /\ Exists(files, stock_pdf[1])
    /\ files' = Unlink(files, stock_pdf[1])
    /\ m_pc' = "unlink_option"
    /\ UNCHANGED <<files0, stock_pdf, option_pdf, merger, output, printed>>
    /\ UNCHANGED mergeFrame

\* merge_pdfs.py:59-61, 100-102: os.unlink of the second source, and the message
MergeUnlinkOption ==
    /\ m_pc = "unlink_option"
    /\ Exists(files, option_pdf[1])
    /\ files' = Unlink(files, option_pdf[1])
    /\ printed' = Append(printed, "merged")
    /\ m_pc' = "done"
    /\ UNCHANGED <<files0, stock_pdf, option_pdf, merger, output>>
    /\ UNCHANGED mergeFrame

\* merge_pdfs.py:100: os.unlink of a path that is gone raises FileNotFoundError
MergeUnlinkOptionFails ==
    /\ m_pc = "unlink_option"
    /\ ~Exists(files, option_pdf[1])
    /\ m_pc' = "raised"
    /\ UNCHANGED <<files, files0, stock_pdf, option_pdf, merger, output, printed>>
    /\ UNCHANGED mergeFrame

----------------------------------------------------------------------------
(* create_bar_chart (tools.py:213-272).                                    *)
(*                                                                         *)
(* A change_percent is a whole number of hundredths, as round(x, 2) leaves *)
(* it.  A rendered text is the sequence of its pieces.                     *)

\* hundredths to the unit
Hundredths == 100

\* the sampled change_percent values: the multiples of PctStep hundredths up to
\* MaxPctSteps steps either side of 0; the bars of one chart
PctStep == 35
MaxPctSteps == 4
MaxBars == 2

ChangePercents == {PctStep * k : k \in (-MaxPctSteps)..MaxPctSteps}

\* the records of fetch_stock_data that a chart reads: only change_percent is read
ChartInfos == {[symbol |-> 1, price |-> 0, change |-> 0, change_percent |-> h] : h \in ChangePercents}

\* one mapping name -> record or None, in iteration order; the name is the position
ChartData == SeqsUpTo({None} \cup {Some(info) : info \in ChartInfos}, MaxBars)

\* data.items()
DataItems(d) == [k \in 1..Len(d) |-> [name |-> k, info |-> d[k]]]

Digits == <<"0", "1", "2", "3", "4", "5", "6", "7", "8", "9">>

\* the decimal digits of a natural number
RECURSIVE Decimal(_)
Decimal(n) == IF n < 10 THEN <<Digits[n + 1]>> ELSE Append(Decimal(n \div 10), Digits[(n % 10) + 1])

\* str(x) of a float of at most two decimals, as the f-string of tools.py:227
\* renders it: "-" for a negative value and no sign otherwise, the integer part,
\* the point, and the decimals without a trailing zero, at least one
str(h) ==
    LET magnitude == IF h < 0 THEN -h ELSE h
        decimals == magnitude % Hundredths
    IN (IF h < 0 THEN <<"-">> ELSE <<>>)
       \o Decimal(magnitude \div Hundredths) \o <<".">>
       \o (IF decimals % 10 = 0 THEN Decimal(decimals \div 10)
           ELSE <<Digits[(decimals \div 10) + 1], Digits[(decimals % 10) + 1]>>)

\* tools.py:227: f"{name}({info['change_percent']}%)"
CategoryName(name, info) ==
    [name |-> name, text |-> <<"(">> \o str(info.change_percent) \o <<"%", ")">>]

\* min(changes), max(changes) of a non-empty list
min(changes) == CHOOSE x \in {changes[k] : k \in 1..Len(changes)} :
                    \A k \in 1..Len(changes) : x <= changes[k]
max(changes) == CHOOSE x \in {changes[k] : k \in 1..Len(changes)} :
                    \A k \in 1..Len(changes) : x >= changes[k]

\* a lower axis bound that pads the data range only
valueMinOfRange(changes) == min(changes) - 1 * Hundredths

\* tools.py:244: min(changes) - 1 if min(changes) < 0 else -1
valueMin(changes) == IF min(changes) < 0 THEN min(changes) - 1 * Hundredths ELSE -1 * Hundredths

\* tools.py:245: max(changes) + 1 if max(changes) > 0 else 1
valueMax(changes) == IF max(changes) > 0 THEN max(changes) + 1 * Hundredths ELSE 1 * Hundredths

\* tools.py:249-255: green for a change >= 0, red otherwise
fillColor(change) == IF change >= 0 THEN "green" ELSE "red"

\* tools.py:213-272: the paragraph for data without a valid record, else the
\* drawing: its data, axis bounds, axis step (a fraction of hundredths), bar
\* colours and category names
create_bar_chart(d) ==
    LET valid_data == SelectSeq(DataItems(d), LAMBDA item : item.info # None)
        changes == [k \in 1..Len(valid_data) |-> valid_data[k].info[1].change_percent]
        names == [k \in 1..Len(valid_data) |->
                     CategoryName(valid_data[k].name, valid_data[k].info[1])]
    IN IF valid_data = <<>>
       THEN [kind |-> "paragraph", text |-> "no valid data"]
       ELSE [kind |-> "drawing",
             data |-> changes,
             valueMin |-> valueMin(changes),
             valueMax |-> valueMax(changes),
             valueStep |-> [num |-> valueMax(changes) - valueMin(changes), den |-> 10],
             bars |-> [k \in 1..Len(changes) |-> fillColor(changes[k])],
             categoryNames |-> names]

\* create_bar_chart(data, font_name) is applied to a mapping
ChartBuild ==
    /\ c_pc = "build"
    /\ c_chart' = Some(create_bar_chart(c_data))
    /\ c_pc' = "done"
    /\ UNCHANGED c_data
    /\ UNCHANGED <<call, fetchVars, optionVars, batchVars, recordVars, mergeVars, reportVars>>

----------------------------------------------------------------------------
(* The report generators: generate_pdf_report (tools.py:162-211) with      *)
(* get_previous_weekday (tools.py:22-35), generate_options_pdf             *)
(* (tools.py:426-494) and generate_pdf_report of option_analysis.py        *)
(* (129-242).  The story holds the blocks that carry content: spacers and  *)
(* page breaks are left out.                                               *)

\* the clock shows a time of day of one of the days 0 (a Monday) to LastDay
LastDay == 6
ReportClock == 0..((LastDay + 1) * TicksPerDay - 1)

\* the sections of a market report, the names in one section, the chains of one
\* options section, the sections of an options report
MaxSections == 1
MaxReportNames == 1
MaxChains == 1
MaxKeys == 2

\* datetime.weekday(): 0 for Monday to 6 for Sunday
weekday(now) == (now \div TicksPerDay) % 7

\* timedelta(days=n)
timedelta(days) == days * TicksPerDay

\* strftime('%Y-%m-%d'): the day, the time of day dropped, written with dashes
strftime(now) == [day |-> now \div TicksPerDay, dashes |-> TRUE]

\* .replace('-', ''), and the format '%Y%m%d'
replace(date) == [date EXCEPT !.dashes = FALSE]

\* a date function that steps one day back on either weekend day
get_previous_day(today) ==
    IF weekday(today) \in {5, 6} THEN strftime(today - timedelta(1)) ELSE strftime(today)

\* tools.py:22-35
get_previous_weekday(today) ==
    IF weekday(today) = 6 THEN strftime(today - timedelta(2))
    ELSE IF weekday(today) = 5 THEN strftime(today - timedelta(1))
    ELSE strftime(today)

OptionsReports == {"generate_options_pdf", "option_analysis.generate_pdf_report"}

\* the date a report is stamped with: tools.py:171, 196 (the latest weekday);
\* tools.py:434, 459 and option_analysis.py:178, 203 (time.strftime: today)
DateOf(now) ==
    IF call = "generate_pdf_report" THEN get_previous_weekday(now) ELSE strftime(now)

\* the sections of a market report: per section one mapping as fetch_stock_data
\* returns it, a name mapped to None or to a record
ReportInfos == {info \in ChartInfos : info.change_percent \in {-PctStep, 0, PctStep}}
ReportData == SeqsUpTo({None} \cup {Some(info) : info \in ReportInfos}, MaxReportNames)
MarketReports == SeqsUpTo(ReportData, MaxSections)

\* tools.py:321-324: the list get_option_data returns: n chains
ChainList(n) == [k \in 1..n |-> [expiration |-> Today + k, option_chain |-> ChainOf(Today + k)]]

\* one section of an options report, as get_option_data returns it: no chains and
\* no price, or the chains and a price that may be None
NoOptionData == [option_chain |-> None, stock_price |-> None]
OptionData(maxChains) ==
    {NoOptionData} \cup
    {[option_chain |-> Some(ChainList(n)), stock_price |-> price] :
        n \in 1..maxChains, price \in PriceField}

\* generate_options_pdf takes any number of sections; the option_analysis.py
\* report has the two sections QQQ and SPY, each of one chain
OptionsReportsOf(c) ==
    IF c = "generate_options_pdf"
    THEN SeqsUpTo(OptionData(MaxChains), MaxKeys)
    ELSE [1..2 -> OptionData(1)]

reportFrame == <<call, fetchVars, optionVars, batchVars, recordVars, mergeVars, chartVars>>

\* tools.py:166-172, 430-435, option_analysis.py:134-179: the font, and the
\* output path with its date stamp
ReportFilename ==
    /\ g_pc = "filename"
    /\ filename' = Some(replace(DateOf(clock)))
    /\ g_pc' = "date"
    /\ UNCHANGED <<clock, all_data, section, date_str, story, del_path, tmp, document, raised>>
    /\ UNCHANGED reportFrame

\* tools.py:173-199, 436-463, option_analysis.py:180-206: the title and the
\* date line; the clock is read again
ReportDate ==
    /\ g_pc = "date"
    /\ \E now \in {clock, clock + 1} \cap ReportClock :
          /\ clock' = now
          /\ date_str' = Some(DateOf(now))
          /\ story' = <<[kind |-> "title"], [kind |-> "date", date |-> DateOf(now)]>>
    /\ g_pc' = "sections"
    /\ UNCHANGED <<all_data, section, filename, del_path, tmp, document, raised>>
    /\ UNCHANGED reportFrame

Heading(key) == [kind |-> "heading", key |-> key]

\* tools.py:203-207: the heading and the bar chart of the next section
ReportSection ==
    /\ call = "generate_pdf_report"
    /\ g_pc = "sections"
    /\ section < Len(all_data)
    /\ story' = story \o <<Heading(section + 1), create_bar_chart(all_data[section + 1])>>
    /\ section' = section + 1
    /\ UNCHANGED <<clock, g_pc, all_data, filename, date_str, del_path, tmp, document, raised>>
    /\ UNCHANGED reportFrame

\* tempfile.NamedTemporaryFile(suffix='.png', delete=False): a fresh path
NamedTemporaryFile(n) == n + 1

\* plot_open_interest_separate iterates over option_chains (tools.py:367): None
\* is not iterable; the option_analysis.py copy tests its arguments for None
Plottable(value) == call = "option_analysis.generate_pdf_report" \/ value.option_chain # None

\* tools.py:477-480, option_analysis.py:216-219, 230-233: the price line
PriceLine(value) ==
    IF value.stock_price # None
    THEN <<[kind |-> "price", price |-> value.stock_price[1]]>>
    ELSE <<>>

\* tools.py:465-483, option_analysis.py:209-233: the heading, the chart drawn and
\* saved to a temporary image, the image block, the price line; the path is
\* kept for the cleanup
PlotChart ==
    /\ call \in OptionsReports
    /\ g_pc = "sections"
    /\ section < Len(all_data)
    /\ Plottable(all_data[section + 1])
    /\ LET value == all_data[section + 1]
           chart_path == NamedTemporaryFile(section)
       IN /\ tmp' = tmp \cup {chart_path}
          /\ story' = story \o <<Heading(section + 1), [kind |-> "image", path |-> chart_path]>>
                            \o PriceLine(value)
          /\ del_path' = Append(del_path, chart_path)
    /\ section' = section + 1
    /\ UNCHANGED <<clock, g_pc, all_data, filename, date_str, document, raised>>
    /\ UNCHANGED reportFrame

\* tools.py:367: enumerate(None) raises TypeError; nothing catches it
PlotTypeError ==
    /\ call \in OptionsReports
    /\ g_pc = "sections"
    /\ section < Len(all_data)
    /\ ~Plottable(all_data[section + 1])
    /\ story' = Append(story, Heading(section + 1))
    /\ raised' = "TypeError"
    /\ g_pc' = "raised"
    /\ UNCHANGED <<clock, all_data, section, filename, date_str, del_path, tmp, document>>
    /\ UNCHANGED reportFrame

\* tools.py:419-420, option_analysis.py:121-123: the temporary file is created
\* and plt.savefig raises (no space left, say); nothing catches it
PlotSaveFails ==
    /\ call \in OptionsReports
    /\ g_pc = "sections"
    /\ section < Len(all_data)
    /\ Plottable(all_data[section + 1])
    /\ tmp' = tmp \cup {NamedTemporaryFile(section)}
    /\ story' = Append(story, Heading(section + 1))
    /\ raised' = "savefig"
    /\ g_pc' = "raised"
    /\ UNCHANGED <<clock, all_data, section, filename, date_str, del_path, document>>
    /\ UNCHANGED reportFrame

\* tools.py:210-211, 485, option_analysis.py:236: doc.build(story) writes the
\* document; generate_pdf_report of tools.py then returns
ReportBuild ==
    /\ g_pc = "sections"
    /\ section = Len(all_data)
    /\ document' = Some([filename |-> filename[1], story |-> story])
    /\ g_pc' = IF call = "generate_pdf_report" THEN "done" ELSE "cleanup"
    /\ UNCHANGED <<clock, all_data, section, filename, date_str, story, del_path, tmp, raised>>
    /\ UNCHANGED reportFrame

\* doc.build(story) raises (the output cannot be written, a block cannot be laid
\* out); nothing catches it
ReportBuildFails ==
    /\ g_pc = "sections"
    /\ section = Len(all_data)
    /\ raised' = "build"
    /\ g_pc' = "raised"
    /\ UNCHANGED <<clock, all_data, section, filename, date_str, story, del_path, tmp, document>>
    /\ UNCHANGED reportFrame

\* tools.py:488-490, option_analysis.py:239-240: the next chart image is removed
RemoveChart ==
    /\ g_pc = "cleanup"
    /\ del_path # <<>>
    /\ tmp' = tmp \ {Head(del_path)}
    /\ del_path' = Tail(del_path)
    /\ UNCHANGED <<clock, g_pc, all_data, section, filename, date_str, story, document, raised>>
    /\ UNCHANGED reportFrame

\* os.remove raises: tools.py:491-492 prints and goes on to the next path;
\* os.unlink of option_analysis.py:239-240 is not guarded
RemoveChartFails ==
    /\ g_pc = "cleanup"
    /\ del_path # <<>>
    /\ IF call = "generate_options_pdf"
       THEN /\ del_path' = Tail(del_path)
            /\ UNCHANGED <<g_pc, raised>>
       ELSE /\ raised' = "unlink"
            /\ g_pc' = "raised"
            /\ UNCHANGED del_path
    /\ UNCHANGED <<clock, all_data, section, filename, date_str, story, tmp, document>>
    /\ UNCHANGED reportFrame

\* tools.py:494, option_analysis.py:242: return filename
ReportReturn ==
    /\ g_pc = "cleanup"
    /\ del_path = <<>>
    /\ g_pc' = "done"
    /\ UNCHANGED <<clock, all_data, section, filename, date_str, story, del_path, tmp, document,
                   raised>>
    /\ UNCHANGED reportFrame

----------------------------------------------------------------------------
(* Specifications: one run is one call.                                    *)

FetchIdle ==
    /\ f_pc = "idle"
    /\ f_attempt = 0
    /\ f_result = None

OptionIdle ==
    /\ o_pc = "idle"
    /\ o_attempt = 0
    /\ variant = "tools"
    /\ current_date = Today * TicksPerDay
    /\ expiration_dates = <<>>
    /\ stock_info = None
    /\ stock_price = None
    /\ nearest_expirations = <<>>
    /\ option_chains = <<>>
    /\ o_result = <<>>

BatchIdle ==
    /\ symbols_dict = <<>>
    /\ b_pc = "idle"
    /\ i = 0
    /\ data = <<>>
    /\ attempted = <<>>
    /\ fetched = <<>>

RecordIdle ==
    /\ r_pc = "idle"
    /\ r_hist = [hasClose |-> TRUE, rows |-> <<>>]
    /\ r_entry = None

MergeIdle ==
    /\ files = [path \in Paths |-> 0]
    /\ files0 = files
    /\ m_pc = "idle"
    /\ stock_pdf = None
    /\ option_pdf = None
    /\ merger = <<>>
    /\ output = None
    /\ printed = <<>>

ReportIdle ==
    /\ clock = 0
    /\ g_pc = "idle"
    /\ all_data = <<>>
    /\ section = 0
    /\ filename = None
    /\ date_str = None
    /\ story = <<>>
    /\ del_path = <<>>
    /\ tmp = {}
    /\ document = None
    /\ raised = ""

ChartIdle ==
    /\ c_pc = "idle"
    /\ c_data = <<>>
    /\ c_chart = None

\* fetch_single_ticker(symbol) is entered: tools.py:41-42
InitFetch ==
    /\ call = "fetch_single_ticker"
    /\ trace = <<>>
    /\ f_pc = "try"
    /\ f_attempt = 0
    /\ f_result = None
    /\ OptionIdle /\ BatchIdle /\ RecordIdle /\ MergeIdle /\ ReportIdle /\ ChartIdle

\* get_option_data(ticker_symbol) is entered: tools.py:278, option_analysis.py:25
InitOption ==
    /\ call = "get_option_data"
    /\ trace = <<>>
    /\ o_pc = "options"
    /\ o_attempt = 0
    \* only the tools.py copy reads the clock (tools.py:304)
    /\ \/ variant = "tools" /\ current_date \in Clock
       \/ variant = "option_analysis" /\ current_date = Today * TicksPerDay
    /\ expiration_dates = <<>>
    /\ stock_info = None
    /\ stock_price = None
    /\ nearest_expirations = <<>>
    /\ option_chains = <<>>
    /\ o_result = <<>>
    /\ FetchIdle /\ BatchIdle /\ RecordIdle /\ MergeIdle /\ ReportIdle /\ ChartIdle

\* fetch_stock_data(symbols_dict) is entered: tools.py:62-63
InitBatch ==
    /\ call = "fetch_stock_data"
    /\ trace = <<>>
    /\ symbols_dict \in SymbolDicts
    /\ b_pc = "loop"
    /\ i = 0
    /\ data = <<>>
    /\ attempted = <<>>
    /\ fetched = <<>>
    /\ FetchIdle /\ OptionIdle /\ RecordIdle /\ MergeIdle /\ ReportIdle /\ ChartIdle

\* the loop body of fetch_stock_data meets a fetched frame
InitRecord ==
    /\ call = "record"
    /\ trace = <<>>
    /\ r_pc = "build"
    /\ r_hist \in RecordFrames
    /\ r_entry = None
    /\ FetchIdle /\ OptionIdle /\ BatchIdle /\ MergeIdle /\ ReportIdle /\ ChartIdle

\* merge_pdfs() is entered: any files with any modification times
InitMergeLatest ==
    /\ call = "merge_pdfs"
    /\ trace = <<>>
    /\ files \in [Paths -> 0..MaxMtime]
    /\ files0 = files
    /\ m_pc = "glob_stock"
    /\ stock_pdf = None
    /\ option_pdf = None
    /\ merger = <<>>
    /\ output = None
    /\ printed = <<>>
    /\ FetchIdle /\ OptionIdle /\ BatchIdle /\ RecordIdle /\ ReportIdle /\ ChartIdle

\* merge_specific_pdfs(stock_pdf, option_pdf) is entered: any two paths, each
\* existing or not (modification times are not read)
InitMergeSpecific ==
    /\ call = "merge_specific_pdfs"
    /\ trace = <<>>
    /\ files \in [Paths -> 0..1]
    /\ files0 = files
    /\ m_pc = "check_stock"
    /\ \E first \in Paths : stock_pdf = Some(first)
    /\ \E second \in Paths : option_pdf = Some(second)
    /\ merger = <<>>
    /\ output = None
    /\ printed = <<>>
    /\ FetchIdle /\ OptionIdle /\ BatchIdle /\ RecordIdle /\ ReportIdle /\ ChartIdle

InitMerge == InitMergeLatest \/ InitMergeSpecific

Init == InitFetch \/ InitOption

Next ==
    \/ FetchOk
    \/ FetchRateLimited
    \/ FetchError
    \/ FetchExhausted
    \/ OptReadOptions
    \/ OptReadOptionsFails
    \/ OptReadInfo
    \/ OptReadInfoFails
    \/ OptSelect
    \/ OptNoExpirations
    \/ OptFetchChain
    \/ OptFetchChainFails
    \/ OptReturn

\* the client calls: fetch_single_ticker and get_option_data
Spec == Init /\ [][Next]_vars

NextBatch ==
    \/ BatchFetch
    \/ FetchOk
    \/ FetchRateLimited
    \/ FetchError
    \/ FetchExhausted
    \/ BatchRecord
    \/ BatchAbsent
    \/ BatchCaught
    \/ BatchReturn

\* fetch_stock_data
SpecBatch == InitBatch /\ [][NextBatch]_vars

NextRecord == RecordBuild

\* the record arithmetic of fetch_stock_data
SpecRecord == InitRecord /\ [][NextRecord]_vars

NextMerge ==
    \/ MergeNoStockReport
    \/ MergePickStock
    \/ MergeNoOptionReport
    \/ MergePickOption
    \/ MergeStockMissing
    \/ MergeStockExists
    \/ MergeOptionMissing
    \/ MergeOptionExists
    \/ MergeAppend
    \/ MergeAppendFails
    \/ MergeWrite
    \/ MergeOpenFails
    \/ MergeWriteFails
    \/ MergeUnlinkStock
    \/ MergeUnlinkOption
    \/ MergeUnlinkOptionFails

\* merge_pdfs and merge_specific_pdfs
SpecMerge == InitMerge /\ [][NextMerge]_vars

\* generate_pdf_report reaches a section: create_bar_chart is called with its mapping
InitChart ==
    /\ call = "create_bar_chart"
    /\ trace = <<>>
    /\ c_pc = "build"
    /\ c_data \in ChartData
    /\ c_chart = None
    /\ FetchIdle /\ OptionIdle /\ BatchIdle /\ RecordIdle /\ MergeIdle /\ ReportIdle

NextChart == ChartBuild

\* create_bar_chart
SpecChart == InitChart /\ [][NextChart]_vars

\* a report generator is entered with its data, at any time of any day
InitReport ==
    /\ call \in {"generate_pdf_report"} \cup OptionsReports
    /\ trace = <<>>
    /\ clock \in ReportClock
    /\ g_pc = "filename"
    /\ all_data \in IF call = "generate_pdf_report" THEN MarketReports ELSE OptionsReportsOf(call)
    /\ section = 0
    /\ filename = None
    /\ date_str = None
    /\ story = <<>>
    /\ del_path = <<>>
    /\ tmp = {}
    /\ document = None
    /\ raised = ""
    /\ FetchIdle /\ OptionIdle /\ BatchIdle /\ RecordIdle /\ MergeIdle /\ ChartIdle

NextReport ==
    \/ ReportFilename
    \/ ReportDate
    \/ ReportSection
    \/ PlotChart
    \/ PlotTypeError
    \/ PlotSaveFails
    \/ ReportBuild
    \/ ReportBuildFails
    \/ RemoveChart
    \/ RemoveChartFails
    \/ ReportReturn

\* the three report generators
SpecReport == InitReport /\ [][NextReport]_vars

----------------------------------------------------------------------------
(* Claims about the retrying clients (checked under Spec).                 *)

\* the running client call has returned
ClientDone ==
    \/ call = "fetch_single_ticker" /\ f_pc = "done"
    \/ call = "get_option_data" /\ o_pc = "done"

\* the last upstream attempt of the trace went through without an exception
LastAttemptSucceeded == trace # <<>> /\ trace[Len(trace)].ev = "attempt"

\* the number of upstream attempts up to and including position k of the trace
AttemptsUpTo(k) == CountEv(SubSeq(trace, 1, k), "attempt")

\* C1: a call of fetch_single_ticker or get_option_data makes at most 3 upstream
\* attempts, always terminates (a call that has not returned can take a step, and
\* its trace of attempts, failures and sleeps is bounded), and when no attempt
\* succeeded it returns the unavailable value: None, (None, None) or
\* (None, None, None); it never ends in any other way.
C1_BoundedRetryReturnsUnavailable ==
    /\ CountEv(trace, "attempt") <= 3
    /\ Len(trace) <= 9
    /\ ~ClientDone => ENABLED Next
    /\ (ClientDone /\ ~LastAttemptSucceeded) =>
          \/ call = "fetch_single_ticker" /\ f_result = None
          \/ call = "get_option_data" /\ variant = "tools" /\ o_result = <<None, None>>
          \/ call = "get_option_data" /\ variant = "option_analysis"
                /\ o_result = <<None, None, None>>
    /\ (ClientDone /\ LastAttemptSucceeded) =>
          \/ call = "fetch_single_ticker" /\ f_result # None
          \/ call = "get_option_data" /\ o_result[1] # None

\* C1 witness: get_option_data gave up after three failed attempts, the last one
\* an empty expiration list
C1_Witness ==
    /\ call = "get_option_data"
    /\ o_pc = "done"
    /\ CountEv(trace, "attempt") = 3
    /\ trace[Len(trace)] = Fail("err")
    /\ trace[Len(trace) - 1] = Attempt
    /\ o_result = <<None, None>>

\* C2 (as stated): for both clients, an upstream failure that is not a rate limit
\* and is not the third attempt is followed by a 5 second wait and a new attempt.
C2_ErrorWaitsFiveAndRetries ==
    ClientDone =>
        \A k \in 1..Len(trace) :
            (trace[k] = Fail("err") /\ AttemptsUpTo(k) < 3) =>
                /\ k + 2 <= Len(trace)
                /\ trace[k + 1] = Sleep(5)
                /\ trace[k + 2] = Attempt

\* C3 (as stated): every backoff wait is followed by another attempt; the history
\* fetch waits 5, 10, 15 seconds after its 1st, 2nd, 3rd rate-limited attempt; the
\* option fetch waits 10 seconds after a rate-limited attempt that is not the last.
C3_BackoffThenRetry ==
    ClientDone =>
        \A k \in 1..Len(trace) :
            /\ trace[k].ev = "sleep" =>
                  (k + 1 <= Len(trace) /\ trace[k + 1] = Attempt)
            /\ (call = "fetch_single_ticker" /\ trace[k] = Fail("rate")) =>
                  (k + 1 <= Len(trace) /\ trace[k + 1] = Sleep(5 * AttemptsUpTo(k)))
            /\ (call = "get_option_data" /\ trace[k] = Fail("rate") /\ AttemptsUpTo(k) < 3) =>
                  (k + 1 <= Len(trace) /\ trace[k + 1] = Sleep(10))

----------------------------------------------------------------------------
(* Claims about fetch_stock_data (checked under SpecBatch and SpecRecord). *)

\* the display name of the k-th symbol, and whether no later symbol shares it
NameOf(k) == Items(symbols_dict)[k].name
LastWithName(k) == \A m \in (k + 1)..Len(symbols_dict) : NameOf(m) # NameOf(k)

\* the keys that make a full record
RecordFields == {"symbol", "price", "change", "change_percent"}

\* the k-th symbol has a record of its own in the result
HasRecord(k) ==
    /\ NameOf(k) \in DOMAIN data
    /\ data[NameOf(k)] # None
    /\ data[NameOf(k)][1].symbol = Items(symbols_dict)[k].symbol

\* C4 (as stated): after the call returns every symbol has been attempted, in
\* order, and each symbol whose fetch returned a non-empty series has a record.
C4_EverySeriesHasRecord ==
    b_pc = "done" =>
        /\ attempted = [k \in 1..Len(symbols_dict) |-> Items(symbols_dict)[k].symbol]
        /\ \A k \in 1..Len(symbols_dict) : fetched[k] = "series" => HasRecord(k)

\* C4 (amended): after the call returns every symbol has been attempted, in order,
\* whatever the fetches of the symbols before it did, and the entry under each
\* display name is decided by the last symbol carrying that name: that symbol has
\* a record exactly when its fetch returned a non-empty series.
C4_FailureDoesNotAbortBatch ==
    /\ Len(attempted) <= Len(symbols_dict)
    /\ \A k \in 1..Len(attempted) : attempted[k] = Items(symbols_dict)[k].symbol
    /\ b_pc = "done" =>
        /\ Len(attempted) = Len(symbols_dict)
        /\ Len(fetched) = Len(symbols_dict)
        /\ \A k \in 1..Len(symbols_dict) :
              LastWithName(k) => (fetched[k] = "series" <=> HasRecord(k))

\* C4 witness: the first symbol's fetch raised inside the loop body, the second
\* symbol (another display name) was still fetched and has its record
C4_Witness ==
    /\ b_pc = "done"
    /\ Len(symbols_dict) = 2
    /\ NameOf(1) # NameOf(2)
    /\ fetched = <<"malformed", "series">>
    /\ data[NameOf(1)] = None
    /\ HasRecord(2)

\* C5 (as stated): a symbol whose series is empty or whose fetch failed has no key
\* in the returned mapping, and every entry present holds all four fields.
C5_FailedSymbolHasNoKey ==
    b_pc = "done" =>
        /\ \A k \in 1..Len(symbols_dict) :
              fetched[k] # "series" => NameOf(k) \notin DOMAIN data
        /\ \A n \in DOMAIN data : data[n] # None /\ DOMAIN data[n][1] = RecordFields

\* C5 (amended): the returned mapping has a key for every display name of the
\* input; a name whose (last) symbol had an empty series or a failed fetch maps to
\* None, never to a stub; every entry that is not None holds all four fields.
C5_AbsentIsNoneNeverAStub ==
    /\ \A n \in DOMAIN data : data[n] = None \/ DOMAIN data[n][1] = RecordFields
    /\ b_pc = "done" =>
        /\ DOMAIN data = {NameOf(k) : k \in 1..Len(symbols_dict)}
        /\ \A k \in 1..Len(symbols_dict) :
              (LastWithName(k) /\ fetched[k] # "series") => data[NameOf(k)] = None

\* C5 witness: one symbol with an empty series and one exhausted fetch, both
\* present in the result as None
C5_Witness ==
    /\ b_pc = "done"
    /\ fetched = <<"empty", "none">>
    /\ NameOf(1) # NameOf(2)
    /\ DOMAIN data = {NameOf(1), NameOf(2)}
    /\ data[NameOf(1)] = None /\ data[NameOf(2)] = None

\* h hundredths is n / d rounded to 2 decimals: the nearest hundredth, the even
\* one of the two when n / d lies exactly between them (d > 0)
Abs(x) == IF x < 0 THEN -x ELSE x
IsRounded2(h, n, d) ==
    /\ 2 * Abs(100 * n - h * d) <= d
    /\ 2 * Abs(100 * n - h * d) = d => h % 2 = 0

\* C6: for a non-empty close series the record's price is the last close; with two
\* or more observations change = close[-1] - close[-2] and change_percent =
\* change / close[-2] * 100; with one observation both are 0; each value rounded
\* to 2 decimals.
C6_RecordArithmetic ==
    (r_pc = "done" /\ r_hist.hasClose /\ r_hist.rows # <<>>) =>
        /\ r_entry # None
        /\ LET rec == r_entry[1]
               Close == r_hist.rows
               n == Len(Close)
           IN /\ IsRounded2(rec.price, Close[n], CloseScale)
              /\ n >= 2 =>
                    /\ IsRounded2(rec.change, Close[n] - Close[n - 1], CloseScale)
                    /\ IsRounded2(rec.change_percent,
                                  (Close[n] - Close[n - 1]) * 100, Close[n - 1])
              /\ n = 1 => (rec.change = 0 /\ rec.change_percent = 0)

\* C6 witness: three observations, the last two differ, the percentage needs
\* rounding (-1/3 * 100) and the change is a tie (-0.005)
C6_Witness ==
    /\ r_pc = "done"
    /\ r_hist = [hasClose |-> TRUE, rows |-> <<1, 3, 2>>]
    /\ r_entry = Some([symbol |-> 1, price |-> 1, change |-> 0, change_percent |-> -3333])

----------------------------------------------------------------------------
(* Claims about what get_option_data returns (checked under Spec).         *)

\* get_option_data has returned data, not the unavailable value
OptionSucceeded ==
    /\ call = "get_option_data"
    /\ o_pc = "done"
    /\ o_result # Unavailable(variant)

\* the dates e of the list with now <= e <= now + 30 days, e taken at midnight
DatesInWindow ==
    {expiration_dates[k] : k \in
        {m \in 1..Len(expiration_dates) :
            /\ current_date <= expiration_dates[m] * TicksPerDay
            /\ expiration_dates[m] * TicksPerDay <= current_date + 30 * TicksPerDay}}

\* l lists exactly the members of S, in ascending (the provider's) order
ListsAscending(l, S) ==
    /\ {l[k] : k \in 1..Len(l)} = S
    /\ \A a, b \in 1..Len(l) : a < b => l[a] < l[b]

\* C7: a successful call of the tools.py get_option_data returns snapshots for
\* exactly the expirations inside the window, in the provider's order, or for the
\* first expiration alone when the window is empty; never an empty sequence, and
\* never a partial list: each snapshot carries the provider's chain of its
\* expiration, and chains left over from a failed attempt are dropped.
C7_WindowOrNearest ==
    /\ (OptionSucceeded /\ variant = "tools") =>
          LET snapshots == o_result[1][1]
              picked == [k \in 1..Len(snapshots) |-> snapshots[k].expiration]
          IN /\ snapshots # <<>>
             /\ expiration_dates # <<>>
             /\ IF DatesInWindow # {}
                THEN ListsAscending(picked, DatesInWindow)
                ELSE picked = <<expiration_dates[1]>>
             /\ \A k \in 1..Len(snapshots) :
                   snapshots[k].option_chain = ChainOf(snapshots[k].expiration)
    /\ (call = "get_option_data" /\ o_pc = "options") => option_chains = <<>>
    /\ (call = "get_option_data" /\ o_pc = "done" /\ ~OptionSucceeded) =>
          o_result[1] = None

\* C7 witness: past midnight, with today's expiration (already behind now), two
\* expirations inside the window and none beyond: the two are returned
C7_Witness ==
    /\ OptionSucceeded
    /\ variant = "tools"
    /\ current_date = Today * TicksPerDay + 1
    /\ expiration_dates = <<Today, Today + 1, Today + WindowDays>>
    /\ Len(o_result[1][1]) = 2
    /\ o_result[1][1][1].expiration = Today + 1
    /\ o_result[1][1][2].expiration = Today + WindowDays

\* the price a successful call returned
ReturnedPrice == IF variant = "tools" THEN o_result[2] ELSE o_result[3]

\* C8: the returned price is the first present one of regularMarketPrice,
\* currentPrice, previousClose, in that order, and absent when none is present; when
\* reading the metadata failed the price is absent and the chains are still returned.
C8_PriceFallbackOrder ==
    OptionSucceeded =>
        /\ o_result[1] # None
        /\ IF stock_info = None
           THEN ReturnedPrice = None
           ELSE LET fields == <<stock_info[1].regularMarketPrice,
                                stock_info[1].currentPrice,
                                stock_info[1].previousClose>>
                    present == {k \in 1..3 : fields[k] # None}
                IN IF present = {}
                   THEN ReturnedPrice = None
                   ELSE \E k \in present :
                           /\ \A m \in present : k <= m
                           /\ ReturnedPrice = fields[k]

\* C8 witness: no live price, a current price of 0 and a previous close of 1: the
\* current price is returned
C8_Witness ==
    /\ OptionSucceeded
    /\ stock_info = Some([regularMarketPrice |-> None, currentPrice |-> Some(0),
                          previousClose |-> Some(1)])
    /\ ReturnedPrice = Some(0)

----------------------------------------------------------------------------
(* Claims about the merger (checked under SpecMerge).                      *)

\* path is a file of its pattern that existed at the call and that no file of
\* the pattern is newer than
IsLatestOf(path, pattern) ==
    /\ path.pattern = pattern
    /\ files0[path] > 0
    /\ \A other \in Paths : other.pattern = pattern => files0[other] <= files0[path]

\* C9: merge_pdfs picks, for each of the two patterns on its own, the matching
\* file with the greatest modification time, and appends the two in the fixed
\* order stock report, option report, whatever their modification times; the
\* output holds them in that order.
C9_LatestOfEachPatternInOrder ==
    call = "merge_pdfs" =>
        /\ stock_pdf # None => IsLatestOf(stock_pdf[1], "stock")
        /\ option_pdf # None => IsLatestOf(option_pdf[1], "option")
        /\ m_pc \in {"append", "write", "unlink_stock", "unlink_option"} =>
              (stock_pdf # None /\ option_pdf # None)
        /\ merger # <<>> => merger = <<stock_pdf[1], option_pdf[1]>>
        /\ (output # None /\ output[1].complete) =>
              output[1].pages = <<stock_pdf[1], option_pdf[1]>>

\* C9 witness: each pattern matches a file of time 1 and one of time 2; the two
\* files of time 2 were merged, stock report first
C9_Witness ==
    /\ call = "merge_pdfs"
    /\ m_pc = "done"
    /\ files0 = [path \in Paths |-> IF path.pattern = "stock" THEN path.id ELSE 3 - path.id]
    /\ output = Some([pages |-> <<[pattern |-> "stock", id |-> 2], [pattern |-> "option", id |-> 1]>>,
                      complete |-> TRUE])

\* a source path no longer names a file that was there at the call
Deleted(path) == files0[path] > 0 /\ files[path] = 0

\* C10 (as stated): no source is deleted before the output has been written in
\* full; if writing fails neither source is deleted; and once the output of two
\* existing inputs (the same file twice included) has been written, the call ends
\* without an error and with both sources gone.
C10_SourcesDeletedAfterMergeOnly ==
    /\ (\E path \in Paths : Deleted(path)) => (output # None /\ output[1].complete)
    /\ (m_pc \in {"done", "raised"} /\ output # None /\ output[1].complete) =>
          /\ m_pc = "done"
          /\ ~Exists(files, stock_pdf[1])
          /\ ~Exists(files, option_pdf[1])

\* a pattern that matched no file, a given path that named no file, when the
\* merge was called
NoFileMatched(pattern) == \A path \in Paths : path.pattern = pattern => files0[path] = 0
InputMissing ==
    \/ call = "merge_pdfs" /\ \E pattern \in Patterns : NoFileMatched(pattern)
    \/ call = "merge_specific_pdfs" /\ (files0[stock_pdf[1]] = 0 \/ files0[option_pdf[1]] = 0)

\* the message printed for the first input found missing
MissingMessage ==
    IF call = "merge_specific_pdfs" THEN "file does not exist"
    ELSE IF NoFileMatched("stock") THEN "no stock report"
    ELSE "no option report"

\* C11: when a pattern of merge_pdfs matches no file, or a path given to
\* merge_specific_pdfs does not exist, the merge never raises and never reaches
\* the merging statements; it returns after printing the one message about the
\* missing input; and at every step the filesystem is as it was at the call: no
\* output file is written and no file, the input that was found included, is
\* deleted.
C11_MissingInputReportedNothingChanged ==
    InputMissing =>
        /\ m_pc \in {"glob_stock", "glob_option", "check_stock", "check_option", "done"}
        /\ m_pc # "done" => (printed = <<>> /\ ENABLED NextMerge)
        /\ m_pc = "done" => printed = <<MissingMessage>>
        /\ files = files0
        /\ output = None
        /\ merger = <<>>

\* C11 witness: merge_specific_pdfs was given a first path that exists and a
\* second that does not; it has returned, the first file is still there
C11_Witness ==
    /\ call = "merge_specific_pdfs"
    /\ m_pc = "done"
    /\ files0[stock_pdf[1]] > 0
    /\ files0[option_pdf[1]] = 0
    /\ files[stock_pdf[1]] > 0
    /\ printed = <<"file does not exist">>

----------------------------------------------------------------------------
(* Claims about create_bar_chart (checked under SpecChart).                *)

\* the change_percent values of the valid records of the argument, in order
ValidChanges ==
    LET valid == SelectSeq(c_data, LAMBDA info : info # None)
    IN [k \in 1..Len(valid) |-> valid[k][1].change_percent]

ChartDrawn == c_pc = "done" /\ ValidChanges # <<>>

\* x is the least (greatest) of the values of l and 0
IsLeastWithZero(x, l) ==
    /\ x <= 0 /\ \A k \in 1..Len(l) : x <= l[k]
    /\ x = 0 \/ \E k \in 1..Len(l) : x = l[k]
IsGreatestWithZero(x, l) ==
    /\ x >= 0 /\ \A k \in 1..Len(l) : x >= l[k]
    /\ x = 0 \/ \E k \in 1..Len(l) : x = l[k]

\* C15 (as stated): for every non-empty set of values the axis bounds are the
\* data range padded by one unit: valueMin = min(values) - 1 and
\* valueMax = max(values) + 1.
C15_AxisIsDataRangePadded ==
    ChartDrawn =>
        /\ c_chart[1].valueMin = min(ValidChanges) - Hundredths
        /\ c_chart[1].valueMax = max(ValidChanges) + Hundredths

\* C15 (amended): for every non-empty set of values the chart plots exactly
\* those values and its axis spans the data range together with zero, padded by
\* one unit on each side: valueMin is one unit below the least of the values and
\* 0, valueMax one unit above the greatest of the values and 0.
C15_AxisIsRangeWithZeroPadded ==
    ChartDrawn =>
        /\ c_chart[1].kind = "drawing"
        /\ c_chart[1].data = ValidChanges
        /\ IsLeastWithZero(c_chart[1].valueMin + Hundredths, ValidChanges)
        /\ IsGreatestWithZero(c_chart[1].valueMax - Hundredths, ValidChanges)

\* C15 witness: a chart of two different positive values: its axis starts one
\* unit below zero
C15_Witness ==
    /\ ChartDrawn
    /\ Len(ValidChanges) = 2
    /\ 0 < ValidChanges[1] /\ ValidChanges[1] < ValidChanges[2]
    /\ c_chart[1].valueMin = -Hundredths
    /\ c_chart[1].valueMax = ValidChanges[2] + Hundredths

----------------------------------------------------------------------------
(* Claims about the report generators (checked under SpecReport).          *)

ReportEnded == g_pc \in {"done", "raised"}

\* the day the clock showed when it was last read; day 0 is a Monday
DayNow == clock \div TicksPerDay

\* d is the date the claim gives for a call on the day today
IsPreviousWeekday(d, today) ==
    /\ today % 7 = 5 => d = today - 1
    /\ today % 7 = 6 => d = today - 2
    /\ today % 7 \in 0..4 => d = today
    /\ d % 7 \in 0..4
    /\ d <= today

\* C12: whatever day and time get_previous_weekday is invoked on (for the
\* output path and again for the date line of the market report), it returns
\* the day before on a Saturday, the day two days before on a Sunday and the
\* same day from Monday to Friday: always a Monday-to-Friday date, never later
\* than the day of the call.
C12_PreviousWeekday ==
    call = "generate_pdf_report" =>
        /\ g_pc = "date" =>
              /\ IsPreviousWeekday(filename[1].day, DayNow)
              /\ ~filename[1].dashes
        /\ date_str # None =>
              /\ IsPreviousWeekday(date_str[1].day, DayNow)
              /\ date_str[1].dashes

\* C12 witness: the market report was generated on a Sunday and is dated with
\* the Friday two days before
C12_Witness ==
    /\ call = "generate_pdf_report"
    /\ g_pc = "done"
    /\ DayNow % 7 = 6
    /\ date_str = Some([day |-> DayNow - 2, dashes |-> TRUE])
    /\ document # None

\* C13 (as stated): when an options report call has ended, by returning or by
\* raising, on whatever path, no temporary chart image it created is left.
C13_NoChartOutlivesCall ==
    (call \in OptionsReports /\ ReportEnded) => tmp = {}

\* some symbol of the argument carries no data: a None record in a section of
\* the market report, a section without chains and price in an options report
HasNoData ==
    IF call = "generate_pdf_report"
    THEN \E k \in 1..Len(all_data) : \E n \in 1..Len(all_data[k]) : all_data[k][n] = None
    ELSE \E k \in 1..Len(all_data) : all_data[k] = NoOptionData

\* the failures of the surroundings: writing the image or the document, removing
\* the image
EnvironmentFailures == {"savefig", "build", "unlink"}

\* C14 (as stated): a report generator that is given a symbol without data still
\* completes and writes the document: its call never ends with an exception
\* that the missing data caused.
C14_AbsentDataIsNotFatal ==
    (call \in {"generate_pdf_report"} \cup OptionsReports /\ HasNoData /\ ReportEnded) =>
        \/ g_pc = "done" /\ document # None
        \/ raised \in EnvironmentFailures

\* C16 (as stated): every change_percent that generate_pdf_report puts into the
\* report, the category names of the bar charts included, is written with an
\* explicit sign: "+" when it is not negative, "-" when it is.
C16_ExplicitSign ==
    call = "generate_pdf_report" =>
        \A k \in 1..Len(story) :
            story[k].kind = "drawing" =>
                \A n \in 1..Len(story[k].categoryNames) :
                    story[k].categoryNames[n].text[2] =
                        (IF story[k].data[n] < 0 THEN "-" ELSE "+")

====
